---- MODULE Spec2Model ----
(***************************************************************************)
(* Model of the assets-creator local MCP server (src/assets_creator/src/   *)
(* main.js): the stdio JSON-RPC run loop, the request and notification     *)
(* dispatch, the four tool handlers, and resolvePath's confinement of user *)
(* paths to the server root.                                               *)
(*                                                                         *)
(* Strings that the code inspects character by character (user paths) are  *)
(* sequences of one-character strings.  An absolute normalised path is a   *)
(* sequence of segments, "/" being the empty sequence.                     *)
(***************************************************************************)
EXTENDS Integers, Sequences, FiniteSets, TLC

\* ------------------------------------------------------------------ bounds

\* Lines the run loop reads in one behaviour.
MaxLines == 2
\* Longest user path (in characters) of the exhaustive handler probes.
MaxPathLen == 6

\* Longest file content (in UTF-16 code units) of the write-then-read runs.
MaxContentLen == 2

\* The characters user paths are built from.
Chars == {".", "/", "a", "s"}

\* ------------------------------------------------------------- node:path

\* this.root, already resolved: "/s".
Root == << <<"s">> >>

DotDot == <<".", ".">>

RECURSIVE SplitAcc(_, _, _, _)
SplitAcc(str, i, cur, acc) ==
  IF i > Len(str) THEN Append(acc, cur)
  ELSE IF str[i] = "/" THEN SplitAcc(str, i + 1, <<>>, Append(acc, cur))
  ELSE SplitAcc(str, i + 1, Append(cur, str[i]), acc)

\* str.split("/")
Split(str) == SplitAcc(str, 1, <<>>, <<>>)

RECURSIVE JoinFrom(_, _)
JoinFrom(segs, i) ==
  IF i > Len(segs) THEN <<>>
  ELSE IF i = Len(segs) THEN segs[i]
  ELSE segs[i] \o <<"/">> \o JoinFrom(segs, i + 1)

\* segs.join("/")
Join(segs) == JoinFrom(segs, 1)

RECURSIVE normalizeFrom(_, _, _)
normalizeFrom(segs, i, acc) ==
  IF i > Len(segs) THEN acc
  ELSE IF segs[i] = <<>> \/ segs[i] = <<".">> THEN normalizeFrom(segs, i + 1, acc)
  ELSE IF segs[i] = DotDot
    THEN normalizeFrom(segs, i + 1,
                       IF acc = <<>> THEN acc ELSE SubSeq(acc, 1, Len(acc) - 1))
  ELSE normalizeFrom(segs, i + 1, Append(acc, segs[i]))

\* path.isAbsolute (posix)
pathIsAbsolute(str) == Len(str) > 0 /\ str[1] = "/"

\* path.resolve(root, userPath) (posix): an absolute userPath replaces the
\* root, an empty one leaves it; ".", "" and ".." segments are collapsed and
\* ".." never climbs above "/".
pathResolve(root, userPath) ==
  IF pathIsAbsolute(userPath) THEN normalizeFrom(Split(userPath), 1, <<>>)
  ELSE normalizeFrom(Split(userPath), 1, root)

RECURSIVE CommonLen(_, _, _)
CommonLen(a, b, i) ==
  IF i > Len(a) \/ i > Len(b) THEN i - 1
  ELSE IF a[i] = b[i] THEN CommonLen(a, b, i + 1)
  ELSE i - 1

\* path.relative(from, to) on two resolved paths, as the string it returns.
pathRelative(from, to) ==
  LET k == CommonLen(from, to, 1)
      ups == [j \in 1..(Len(from) - k) |-> DotDot]
  IN Join(ups \o SubSeq(to, k + 1, Len(to)))

\* path.dirname of a resolved path; dirname("/") is "/".
pathDirname(p) == IF p = <<>> THEN <<>> ELSE SubSeq(p, 1, Len(p) - 1)

\* String.prototype.startsWith
startsWith(str, prefix) ==
  Len(str) >= Len(prefix) /\ SubSeq(str, 1, Len(prefix)) = prefix

\* resolvePath without its containment test.
resolvePathUnchecked(userPath) ==
  [ok |-> TRUE, path |-> pathResolve(Root, userPath)]

\* LocalMCPServer.resolvePath: ok = FALSE is the thrown out-of-root error.
resolvePath(userPath) ==
  LET resolved == pathResolve(Root, userPath)
      relative == pathRelative(Root, resolved)
  IN IF resolved = Root THEN [ok |-> TRUE, path |-> resolved]
     ELSE IF startsWith(relative, DotDot) \/ pathIsAbsolute(relative)
       THEN [ok |-> FALSE, path |-> <<>>]
     ELSE [ok |-> TRUE, path |-> resolved]

\* p is Root itself or nested under Root.
WithinRoot(p) == Len(p) >= Len(Root) /\ SubSeq(p, 1, Len(Root)) = Root

\* ------------------------------------------------------------ JSON values

\* A JSON value as the handlers see it: its typeof class and, for the types a
\* handler reads, its value.  "undef" is a member that is absent.
JV(t, v) == [t |-> t, v |-> v]
Undef == JV("undef", <<>>)

\* The text of a tool result or of a thrown error: the message template, and
\* the parts of it that vary (file contents, a relative path, entry names).
Text(tag, str, path, names) ==
  [tag |-> tag, str |-> str, path |-> path, names |-> names]
Msg(tag) == Text(tag, <<>>, <<>>, <<>>)

\* --------------------------------------------------------------- encoding

\* UTF-16 code units of a JS string: "h" is an ASCII letter, "HS" and "LS" a
\* high and a low surrogate, "FFFD" the replacement character.
RECURSIVE utf8EncodeFrom(_, _)
utf8EncodeFrom(s, i) ==
  IF i > Len(s) THEN <<>>
  ELSE IF s[i] = "h" THEN <<"68">> \o utf8EncodeFrom(s, i + 1)
  ELSE IF s[i] = "HS" /\ i < Len(s) /\ s[i + 1] = "LS"
    THEN <<"F0", "9F", "98", "80">> \o utf8EncodeFrom(s, i + 2)
  ELSE <<"EF", "BF", "BD">> \o utf8EncodeFrom(s, i + 1)

\* What fs.writeFile(..., {encoding: "utf-8"}) stores for a string.
utf8Encode(s) == utf8EncodeFrom(s, 1)

RECURSIVE utf8DecodeFrom(_, _)
utf8DecodeFrom(b, i) ==
  IF i > Len(b) THEN <<>>
  ELSE IF b[i] = "68" THEN <<"h">> \o utf8DecodeFrom(b, i + 1)
  ELSE IF i + 3 <= Len(b) /\ SubSeq(b, i, i + 3) = <<"F0", "9F", "98", "80">>
    THEN <<"HS", "LS">> \o utf8DecodeFrom(b, i + 4)
  ELSE IF i + 2 <= Len(b) /\ SubSeq(b, i, i + 2) = <<"EF", "BF", "BD">>
    THEN <<"FFFD">> \o utf8DecodeFrom(b, i + 3)
  ELSE <<"FFFD">> \o utf8DecodeFrom(b, i + 1)

\* What fs.readFile(..., {encoding: "utf-8"}) returns for stored bytes.
utf8Decode(b) == utf8DecodeFrom(b, 1)

\* ------------------------------------------------------------- filesystem

\* A filesystem maps each existing absolute path to its node.
Dir == [kind |-> "dir", data |-> <<>>]
File(bytes) == [kind |-> "file", data |-> bytes]

Prefix(p, i) == SubSeq(p, 1, i)

\* The error of walking to p's parent: "" when every proper ancestor of p is
\* an existing directory.
WalkError(fs, p) ==
  LET bad == {i \in 0..(Len(p) - 1) :
                Prefix(p, i) \notin DOMAIN fs \/ fs[Prefix(p, i)].kind # "dir"}
  IN IF bad = {} THEN ""
     ELSE LET m == CHOOSE i \in bad : \A j \in bad : i <= j
          IN IF Prefix(p, m) \notin DOMAIN fs THEN "ENOENT" ELSE "ENOTDIR"

\* fs.readFile(p, utf-8)
fsReadFile(fs, p) ==
  LET e == WalkError(fs, p)
  IN IF e # "" THEN [err |-> e, data |-> <<>>]
     ELSE IF p \notin DOMAIN fs THEN [err |-> "ENOENT", data |-> <<>>]
     ELSE IF fs[p].kind = "dir" THEN [err |-> "EISDIR", data |-> <<>>]
     ELSE [err |-> "", data |-> utf8Decode(fs[p].data)]

\* fs.writeFile(p, content, utf-8): creates or fully replaces the file.
fsWriteFile(fs, p, content) ==
  LET e == WalkError(fs, p)
  IN IF e # "" THEN [err |-> e, fs |-> fs]
     ELSE IF p \in DOMAIN fs /\ fs[p].kind = "dir" THEN [err |-> "EISDIR", fs |-> fs]
     ELSE [err |-> "", fs |-> (p :> File(utf8Encode(content))) @@ fs]

\* fs.mkdir(p, {recursive: true}): creates p and its missing ancestors, and
\* succeeds without effect when p is already a directory.
fsMkdir(fs, p) ==
  LET e == WalkError(fs, p)
  IN IF e = "ENOTDIR" THEN [err |-> "ENOTDIR", fs |-> fs]
     ELSE IF p \in DOMAIN fs /\ fs[p].kind # "dir" THEN [err |-> "EEXIST", fs |-> fs]
     ELSE [err |-> "",
           fs |-> [q \in DOMAIN fs \cup {Prefix(p, i) : i \in 0..Len(p)} |->
                     IF q \in DOMAIN fs THEN fs[q] ELSE Dir]]

\* fs.readdir with {recursive: true}: every descendant of p.
fsReaddirRecursive(fs, p) ==
  LET e == WalkError(fs, p)
  IN IF e # "" THEN [err |-> e, entries |-> {}]
     ELSE IF p \notin DOMAIN fs THEN [err |-> "ENOENT", entries |-> {}]
     ELSE IF fs[p].kind # "dir" THEN [err |-> "ENOTDIR", entries |-> {}]
     ELSE [err |-> "",
           entries |-> {[name |-> q[Len(q)], isDirectory |-> fs[q].kind = "dir"] :
                          q \in {r \in DOMAIN fs :
                                   Len(r) > Len(p) /\ Prefix(r, Len(p)) = p}}]

\* fs.readdir(p, {withFileTypes: true}): the direct children of p.
fsReaddir(fs, p) ==
  LET e == WalkError(fs, p)
  IN IF e # "" THEN [err |-> e, entries |-> {}]
     ELSE IF p \notin DOMAIN fs THEN [err |-> "ENOENT", entries |-> {}]
     ELSE IF fs[p].kind # "dir" THEN [err |-> "ENOTDIR", entries |-> {}]
     ELSE [err |-> "",
           entries |-> {[name |-> q[Len(q)], isDirectory |-> fs[q].kind = "dir"] :
                          q \in {r \in DOMAIN fs :
                                   Len(r) = Len(p) + 1 /\ Prefix(r, Len(p)) = p}}]

\* ------------------------------------------------------------ localeCompare

\* Collation rank of a character (punctuation sorts before letters).
CharRank(c) ==
  CASE c = "." -> 1
    [] c = "/" -> 2
    [] c = "a" -> 3
    [] c = "s" -> 4
    [] OTHER -> 5

RECURSIVE localeLessFrom(_, _, _)
localeLessFrom(a, b, i) ==
  IF i > Len(b) THEN FALSE
  ELSE IF i > Len(a) THEN TRUE
  ELSE IF CharRank(a[i]) # CharRank(b[i]) THEN CharRank(a[i]) < CharRank(b[i])
  ELSE localeLessFrom(a, b, i + 1)

\* a.localeCompare(b) < 0
localeLess(a, b) == localeLessFrom(a, b, 1)

RECURSIVE sortNames(_)
\* names.sort((a, b) => a.localeCompare(b)) of distinct names.
sortNames(S) ==
  IF S = {} THEN <<>>
  ELSE LET m == CHOOSE x \in S : \A y \in S \ {x} : localeLess(x, y)
       IN <<m>> \o sortNames(S \ {m})

\* ----------------------------------------------------------- tool handlers

\* The outcome of one handler call: threw is "none" (it returned text), "mcp"
\* (it threw an MCPServerError with message text) or "other" (another error);
\* fs is the filesystem it leaves and ops the I/O operations it performed, in
\* order, each with the path it was given.
Outcome(threw, text, fs, ops) ==
  [threw |-> threw, text |-> text, fs |-> fs, ops |-> ops]
Op(op, path) == [op |-> op, path |-> path]

\* LocalMCPServer.handleReadFile
handleReadFile(args, fs) ==
  IF args.path.t # "str"
    THEN Outcome("mcp", Msg("'path' must be a string."), fs, <<>>)
  ELSE LET r == resolvePath(args.path.v)
       IN IF ~r.ok
            THEN Outcome("mcp", Msg("outside of the server root"), fs, <<>>)
          ELSE LET rd == fsReadFile(fs, r.path)
                   ops == <<Op("readFile", r.path)>>
               IN IF rd.err = ""
                    THEN Outcome("none", Text("data", rd.data, <<>>, <<>>), fs, ops)
                  ELSE IF rd.err = "ENOENT"
                    THEN Outcome("mcp", Msg("File not found"), fs, ops)
                  ELSE IF rd.err = "EISDIR"
                    THEN Outcome("mcp", Msg("Path is a directory"), fs, ops)
                  ELSE Outcome("mcp", Msg("Failed to read file"), fs, ops)

\* LocalMCPServer.handleWriteFile
handleWriteFile(args, fs) ==
  LET createParents ==
        IF args.create_parents.t = "undef" THEN JV("bool", FALSE)
        ELSE args.create_parents
  IN IF args.path.t # "str"
       THEN Outcome("mcp", Msg("'path' must be a string."), fs, <<>>)
     ELSE IF args.content.t # "str"
       THEN Outcome("mcp", Msg("'content' must be a string."), fs, <<>>)
     ELSE IF createParents.t # "bool"
       THEN Outcome("mcp", Msg("'create_parents' must be a boolean."), fs, <<>>)
     ELSE LET r == resolvePath(args.path.v)
          IN IF ~r.ok
               THEN Outcome("mcp", Msg("outside of the server root"), fs, <<>>)
             ELSE LET mk == IF createParents.v THEN fsMkdir(fs, pathDirname(r.path))
                            ELSE [err |-> "", fs |-> fs]
                      mkOps == IF createParents.v
                                 THEN <<Op("mkdir", pathDirname(r.path))>>
                               ELSE <<>>
                  IN IF mk.err # ""
                       THEN Outcome("other", Msg(mk.err), fs, mkOps)
                     ELSE LET wr == fsWriteFile(mk.fs, r.path, args.content.v)
                              ops == Append(mkOps, Op("writeFile", r.path))
                          IN IF wr.err = ""
                               THEN Outcome("none",
                                            Text("Wrote", <<>>,
                                                 pathRelative(Root, r.path), <<>>),
                                            wr.fs, ops)
                             ELSE IF wr.err = "EISDIR"
                               THEN Outcome("mcp", Msg("Cannot write to directory path"),
                                            mk.fs, ops)
                             ELSE Outcome("mcp", Msg("Failed to write file"), mk.fs, ops)

\* LocalMCPServer.handleListDir
handleListDir(args, fs) ==
  LET userPath == IF args.path.t \in {"undef", "null"} THEN JV("str", <<".">>)
                  ELSE args.path
  IN IF userPath.t # "str"
       THEN Outcome("mcp", Msg("'path' must be a string."), fs, <<>>)
     ELSE LET r == resolvePath(userPath.v)
          IN IF ~r.ok
               THEN Outcome("mcp", Msg("outside of the server root"), fs, <<>>)
             ELSE LET rd == fsReaddir(fs, r.path)
                      ops == <<Op("readdir", r.path)>>
                      names == sortNames({IF e.isDirectory THEN Append(e.name, "/")
                                          ELSE e.name : e \in rd.entries})
                  IN IF rd.err = "ENOENT"
                       THEN Outcome("mcp", Msg("Directory not found"), fs, ops)
                     ELSE IF rd.err # ""
                       THEN Outcome("mcp", Msg("Failed to list directory"), fs, ops)
                     ELSE IF names = <<>>
                       THEN Outcome("none", Msg("(empty)"), fs, ops)
                     ELSE Outcome("none", Text("names", <<>>, <<>>, names), fs, ops)

\* What model.generateContent can do: answer with text, answer without
\* text, or throw.
GenerateOutcomes == {"text", "empty", "throws"}

\* GeminiClient.generate: gen is what generateContent does when it is called.
generate(prompt, fs, gen) ==
  IF prompt.v = <<>>
    THEN Outcome("mcp", Msg("'prompt' must be a non-empty string."), fs, <<>>)
  ELSE IF gen = "text"
    THEN Outcome("none", Msg("generated"), fs, <<Op("generateContent", <<>>)>>)
  ELSE Outcome("mcp", Msg("Gemini call failed"), fs, <<Op("generateContent", <<>>)>>)

\* handleCallGemini testing the argument types before this.gemini.
handleCallGeminiTypesFirst(args, fs, gemini, gen) ==
  IF args.prompt.t # "str"
    THEN Outcome("mcp", Msg("'prompt' must be a string."), fs, <<>>)
  ELSE IF args.system_prompt.t \notin {"undef", "str"}
    THEN Outcome("mcp", Msg("'system_prompt' must be a string when provided."), fs, <<>>)
  ELSE IF args.temperature.t \notin {"undef", "num"}
    THEN Outcome("mcp", Msg("'temperature' must be numeric when provided."), fs, <<>>)
  ELSE IF args.top_p.t \notin {"undef", "num"}
    THEN Outcome("mcp", Msg("'top_p' must be numeric when provided."), fs, <<>>)
  ELSE IF ~gemini
    THEN Outcome("mcp", Msg("Gemini client is not configured."), fs, <<>>)
  ELSE generate(args.prompt, fs, gen)

\* LocalMCPServer.handleCallGemini: gemini is whether this.gemini is set.
handleCallGemini(args, fs, gemini, gen) ==
  IF ~gemini
    THEN Outcome("mcp", Msg("Gemini client is not configured."), fs, <<>>)
  ELSE IF args.prompt.t # "str"
    THEN Outcome("mcp", Msg("'prompt' must be a string."), fs, <<>>)
  ELSE IF args.system_prompt.t \notin {"undef", "str"}
    THEN Outcome("mcp", Msg("'system_prompt' must be a string when provided."), fs, <<>>)
  ELSE IF args.temperature.t \notin {"undef", "num"}
    THEN Outcome("mcp", Msg("'temperature' must be numeric when provided."), fs, <<>>)
  ELSE IF args.top_p.t \notin {"undef", "num"}
    THEN Outcome("mcp", Msg("'top_p' must be numeric when provided."), fs, <<>>)
  ELSE generate(args.prompt, fs, gen)

\* this.tools: the registered tool names.
Tools == {"read_file", "write_file", "list_dir", "call_gemini"}

\* tool.handler(args) of the registered tool `name`.
callHandler(name, args, fs, gemini, gen) ==
  CASE name = "read_file" -> handleReadFile(args, fs)
    [] name = "write_file" -> handleWriteFile(args, fs)
    [] name = "list_dir" -> handleListDir(args, fs)
    [] name = "call_gemini" -> handleCallGemini(args, fs, gemini, gen)

\* ------------------------------------------------------------- messages

\* The id member of a message: absent, null, or a number.
Id(t, n) == [t |-> t, n |-> n]
IdUndef == Id("undef", 0)
IdNull == Id("null", 0)

\* The arguments object of a tools/call: one JSON value per declared field of
\* the four input schemas, and whether it has a field no schema declares.
Args(path, content, cp, prompt, sys, temp, topP, extra) ==
  [path |-> path, content |-> content, create_parents |-> cp, prompt |-> prompt,
   system_prompt |-> sys, temperature |-> temp, top_p |-> topP, extra |-> extra]
UndefBool == JV("undef", FALSE)
EmptyArgs == Args(Undef, Undef, UndefBool, Undef, Undef, Undef, Undef, FALSE)

\* The `arguments` member: its typeof class and, for an object, its fields.
Arguments(t, args) == [t |-> t, args |-> args]
\* The `params` member: its typeof class and, for an object, its `name`
\* ("" when absent) and `arguments`.
Params(t, name, arguments) == [t |-> t, name |-> name, arguments |-> arguments]
ParamsOf(t) == Params(t, "", Arguments("undef", EmptyArgs))

\* A parsed line: the typeof class of the value and, for an object, whether
\* it has a `method` member, and its method, id and params.
Message(t, hasMethod, method, id, params) ==
  [t |-> t, hasMethod |-> hasMethod, method |-> method, id |-> id, params |-> params]
\* A raw input line: blank, not JSON, or the text of a JSON value.
Line(k, msg) == [k |-> k, msg |-> msg]
NoMessage == Message("undef", FALSE, "", IdUndef, ParamsOf("undef"))

\* JSON.parse(line): fails on text that is not JSON.
JSONparse(line) ==
  IF line.k = "json" THEN [ok |-> TRUE, value |-> line.msg]
  ELSE [ok |-> FALSE, value |-> NoMessage]

\* ------------------------------------------------------------- responses

\* A response object: result is which result the method produced ("" in an
\* error response), code the error code (0 in a success response), isError
\* and text the tool-result envelope of a tools/call result.
Response(id, kind, code, result, isError, text) ==
  [id |-> id, kind |-> kind, code |-> code, result |-> result,
   isError |-> isError, text |-> text]

\* No response object (undefined): run sends nothing for it.
NoResponse == Response(IdUndef, "", 0, "", FALSE, Msg(""))

\* LocalMCPServer.jsonrpcError
jsonrpcError(id, code) == Response(id, "error", code, "", FALSE, Msg(""))

\* sendError with the code of another protocol error.
sendErrorInvalidRequest(id, code) == Response(id, "error", -32600, "", FALSE, Msg(""))

\* LocalMCPServer.sendError, as the object it sends.
sendError(id, code) == Response(id, "error", code, "", FALSE, Msg(""))

\* A success response of a method other than tools/call.
Result(id, result) == Response(id, "result", 0, result, FALSE, Msg(""))

\* handleRequest's tools/call catch turned off: a thrown error becomes a
\* protocol error.
toolResponseNoCatch(id, o) ==
  IF o.threw = "none" THEN Response(id, "result", 0, "tool", FALSE, o.text)
  ELSE jsonrpcError(id, -32603)

\* handleRequest, tools/call: the response built from a handler's outcome.
toolResponse(id, o) ==
  IF o.threw = "none" THEN Response(id, "result", 0, "tool", FALSE, o.text)
  ELSE IF o.threw = "mcp" THEN Response(id, "result", 0, "tool", TRUE, o.text)
  ELSE Response(id, "result", 0, "tool", TRUE, Text("Tool failed", <<>>, <<>>, <<>>))

\* handleRequest, tools/call: `params ?? {}` and the two destructured members.
callName(params) == IF params.t = "obj" THEN params.name ELSE ""
\* The destructuring without the `= {}` default of `arguments`.
callArgumentsNoDefault(params) ==
  IF params.t = "obj" THEN params.arguments
  ELSE Arguments("undef", EmptyArgs)
callArguments(params) ==
  IF params.t = "obj" /\ params.arguments.t # "undef" THEN params.arguments
  ELSE Arguments("obj", EmptyArgs)

\* handleRequest with a default case that returns nothing.
handleRequestNoDefault(id, method, params) ==
  LET done(resp) == [invoke |-> FALSE, resp |-> resp, name |-> "", args |-> EmptyArgs]
  IN CASE method = "initialize" -> done(Result(id, "initialize"))
       [] method = "tools/list" -> done(Result(id, "tools"))
       [] method = "tools/call" ->
            IF callName(params) \notin Tools THEN done(jsonrpcError(id, -32601))
            ELSE IF callArguments(params).t # "obj" THEN done(jsonrpcError(id, -32602))
            ELSE [invoke |-> TRUE, resp |-> NoResponse,
                  name |-> callName(params), args |-> callArguments(params).args]
       [] method = "ping" -> done(Result(id, "pong"))
       [] method = "shutdown" -> done(Result(id, "null"))
       [] OTHER -> done(NoResponse)

\* handleRequest testing the shape of `arguments` before the tool name.
handleRequestArgsFirst(id, method, params) ==
  LET done(resp) == [invoke |-> FALSE, resp |-> resp, name |-> "", args |-> EmptyArgs]
  IN CASE method = "initialize" -> done(Result(id, "initialize"))
       [] method = "tools/list" -> done(Result(id, "tools"))
       [] method = "tools/call" ->
            IF callArguments(params).t # "obj" THEN done(jsonrpcError(id, -32602))
            ELSE IF callName(params) \notin Tools THEN done(jsonrpcError(id, -32601))
            ELSE [invoke |-> TRUE, resp |-> NoResponse,
                  name |-> callName(params), args |-> callArguments(params).args]
       [] method = "ping" -> done(Result(id, "pong"))
       [] method = "shutdown" -> done(Result(id, "null"))
       [] OTHER -> done(jsonrpcError(id, -32601))

\* handleRequest without the test of the shape of `arguments`.
handleRequestNoArgsCheck(id, method, params) ==
  LET done(resp) == [invoke |-> FALSE, resp |-> resp, name |-> "", args |-> EmptyArgs]
  IN CASE method = "initialize" -> done(Result(id, "initialize"))
       [] method = "tools/list" -> done(Result(id, "tools"))
       [] method = "tools/call" ->
            IF callName(params) \notin Tools THEN done(jsonrpcError(id, -32601))
            ELSE [invoke |-> TRUE, resp |-> NoResponse,
                  name |-> callName(params), args |-> callArguments(params).args]
       [] method = "ping" -> done(Result(id, "pong"))
       [] method = "shutdown" -> done(Result(id, "null"))
       [] OTHER -> done(jsonrpcError(id, -32601))

\* handleRequest answering an unknown method with a null result.
handleRequestDefaultNull(id, method, params) ==
  LET done(resp) == [invoke |-> FALSE, resp |-> resp, name |-> "", args |-> EmptyArgs]
  IN CASE method = "initialize" -> done(Result(id, "initialize"))
       [] method = "tools/list" -> done(Result(id, "tools"))
       [] method = "tools/call" ->
            IF callName(params) \notin Tools THEN done(jsonrpcError(id, -32601))
            ELSE IF callArguments(params).t # "obj" THEN done(jsonrpcError(id, -32602))
            ELSE [invoke |-> TRUE, resp |-> NoResponse,
                  name |-> callName(params), args |-> callArguments(params).args]
       [] method = "ping" -> done(Result(id, "pong"))
       [] method = "shutdown" -> done(Result(id, "null"))
       [] OTHER -> done(Result(id, "null"))

\* handleRequest up to the point where it either returns a response or calls
\* a tool handler: invoke says which.
handleRequest(id, method, params) ==
  LET done(resp) == [invoke |-> FALSE, resp |-> resp, name |-> "", args |-> EmptyArgs]
  IN CASE method = "initialize" -> done(Result(id, "initialize"))
       [] method = "tools/list" -> done(Result(id, "tools"))
       [] method = "tools/call" ->
            IF callName(params) \notin Tools THEN done(jsonrpcError(id, -32601))
            ELSE IF callArguments(params).t # "obj" THEN done(jsonrpcError(id, -32602))
            ELSE [invoke |-> TRUE, resp |-> NoResponse,
                  name |-> callName(params), args |-> callArguments(params).args]
       [] method = "ping" -> done(Result(id, "pong"))
       [] method = "shutdown" -> done(Result(id, "null"))
       [] OTHER -> done(jsonrpcError(id, -32601))

\* handleNotification ending the process on every notification.
handleNotificationAlwaysExit(method) == TRUE

\* handleNotification: whether it ends the process.
handleNotification(method) == method = "exit"

\* run answering every message that has a method, with or without an id.
RouteIdOptional(line) ==
  LET parsed == JSONparse(line)
      message == parsed.value
  IN IF line.k = "blank" THEN "skip"
     ELSE IF ~parsed.ok THEN "parse error"
     ELSE IF message.t \notin {"obj", "arr"} THEN "ignore"
     ELSE IF ~message.hasMethod THEN "ignore"
     ELSE "request"

\* run answering an object that has no method with an error.
RouteRejectUnknown(line) ==
  LET parsed == JSONparse(line)
      message == parsed.value
  IN IF line.k = "blank" THEN "skip"
     ELSE IF ~parsed.ok THEN "parse error"
     ELSE IF message.t \notin {"obj", "arr"} THEN "ignore"
     ELSE IF ~message.hasMethod THEN "parse error"
     ELSE IF message.id.t # "undef" THEN "request"
     ELSE "notification"

\* run answering a JSON value that is no object with the parse error.
RouteRejectValues(line) ==
  LET parsed == JSONparse(line)
      message == parsed.value
  IN IF line.k = "blank" THEN "skip"
     ELSE IF ~parsed.ok THEN "parse error"
     ELSE IF message.t # "obj" THEN "parse error"
     ELSE IF ~message.hasMethod THEN "ignore"
     ELSE IF message.id.t # "undef" THEN "request"
     ELSE "notification"

\* run testing `id != null`: a null id makes a notification.
RouteNullIdIsNotification(line) ==
  LET parsed == JSONparse(line)
      message == parsed.value
  IN IF line.k = "blank" THEN "skip"
     ELSE IF ~parsed.ok THEN "parse error"
     ELSE IF message.t \notin {"obj", "arr"} THEN "ignore"
     ELSE IF ~message.hasMethod THEN "ignore"
     ELSE IF message.id.t \notin {"undef", "null"} THEN "request"
     ELSE "notification"

\* run, one line: what the loop body does with it.
Route(line) ==
  LET parsed == JSONparse(line)
      message == parsed.value
  IN IF line.k = "blank" THEN "skip"
     ELSE IF ~parsed.ok THEN "parse error"
     ELSE IF message.t \notin {"obj", "arr"} THEN "ignore"
     ELSE IF ~message.hasMethod THEN "ignore"
     ELSE IF message.id.t # "undef" THEN "request"
     ELSE "notification"

\* ------------------------------------------------------------------ state

VARIABLES
  fs,        \* the host filesystem
  gemini,    \* whether the constructor obtained a Gemini client (this.gemini)
  output,    \* the responses written to stdout, each with the number of the
             \* line that caused it
  nread,     \* how many lines the run loop has taken from stdin
  cur,       \* the line taken last
  called,    \* the tool handler invoked for that line ("" when none)
  inflight,  \* the tool calls whose handler is suspended on I/O
  taken,     \* for each line taken, what kind of line it was and its id
  last,      \* the handler run that ended last: what it threw, its text and
             \* the I/O operations it performed
  exited,    \* process.exit was called
  eof,       \* stdin was closed
  probe      \* a handler called directly (as the unit tests do), if any

vars == <<fs, gemini, output, nread, cur, called, inflight, taken, last,
          exited, eof, probe>>

\* The filesystem at start-up: "/" holds the file /a and the root /s; the
\* root holds the file a and the empty directory s.
InitialFs ==
  (<<>> :> Dir) @@ (<< <<"a">> >> :> File(<<"68", "68">>)) @@ (Root :> Dir)
  @@ (<< <<"s">>, <<"a">> >> :> File(<<"68">>))
  @@ (<< <<"s">>, <<"s">> >> :> Dir)

NoProbe == [name |-> "", args |-> EmptyArgs]
Ran(o) == [threw |-> o.threw, text |-> o.text, ops |-> o.ops]
NoRun == [threw |-> "", text |-> Msg(""), ops |-> <<>>]

Init ==
  /\ fs = InitialFs
  /\ gemini \in BOOLEAN
  /\ output = <<>>
  /\ nread = 0
  /\ cur = Line("blank", NoMessage)
  /\ called = ""
  /\ inflight = <<>>
  /\ taken = <<>>
  /\ last = NoRun
  /\ exited = FALSE
  /\ eof = FALSE
  /\ probe = NoProbe

\* ----------------------------------------------------------------- inputs

\* User paths of the lines the run loop is fed.
LinePaths ==
  { <<>>, <<".">>, <<"a">>, <<"s">>, <<"s", "/", "a">>, <<"a", "/", "a">>,
    <<"s", "s", "/", "a">>, <<".", "a">>, <<".", ".", "a">>,
    <<".", ".", "/", "a">>, <<"/", "a">>, <<"/", "s", "/", "a">>,
    <<"s", "/", ".", ".", "/", ".", ".">> }

Num == JV("num", <<>>)
Null == JV("null", <<>>)
PathValues == {Undef, Null, Num} \cup {JV("str", p) : p \in LinePaths}
ContentValues == {Undef, Num, JV("str", <<>>), JV("str", <<"h">>), JV("str", <<"HS">>)}
BoolValues == {UndefBool, JV("num", FALSE), JV("bool", FALSE), JV("bool", TRUE)}
PromptValues == {Undef, Num, JV("str", <<>>), JV("str", <<"a">>)}
OptionalValues == {Undef, Num, JV("str", <<"a">>)}

PathArgs(path, extra) ==
  Args(path, Undef, UndefBool, Undef, Undef, Undef, Undef, extra)
WriteArgs(path, content, cp) ==
  Args(path, content, cp, Undef, Undef, Undef, Undef, FALSE)
GeminiArgs(prompt, sys, temp, topP) ==
  Args(Undef, Undef, UndefBool, prompt, sys, temp, topP, FALSE)

\* The argument objects a tools/call line carries for each tool.
ToolArgs(name) ==
  CASE name = "read_file" ->
         {PathArgs(p, FALSE) : p \in PathValues} \cup {PathArgs(JV("str", <<"a">>), TRUE)}
    [] name = "list_dir" ->
         {PathArgs(p, FALSE) : p \in PathValues} \cup {PathArgs(JV("str", <<"s">>), TRUE)}
    [] name = "write_file" ->
         {WriteArgs(p, JV("str", <<"h">>), cp) :
            p \in PathValues \ {Null, JV("str", <<".", "a">>), JV("str", <<"/", "s", "/", "a">>)},
            cp \in {UndefBool, JV("bool", TRUE)}}
         \cup {WriteArgs(JV("str", <<"a">>), c, UndefBool) : c \in ContentValues}
         \cup {WriteArgs(JV("str", <<"a">>), JV("str", <<"HS">>), cp) : cp \in BoolValues}
         \cup {WriteArgs(Num, Num, JV("num", FALSE)),
               WriteArgs(JV("str", <<"a">>), Num, JV("num", FALSE))}
         \cup {[WriteArgs(JV("str", <<"a">>), JV("str", <<"h">>), UndefBool)
                  EXCEPT !.extra = TRUE],
               WriteArgs(JV("str", <<"s", "/", "s">>), JV("str", <<"h">>), UndefBool)}
    [] name = "call_gemini" ->
         {GeminiArgs(p, Undef, Undef, Undef) : p \in PromptValues}
         \cup {GeminiArgs(JV("str", <<"a">>), o, Undef, Undef) : o \in OptionalValues}
         \cup {GeminiArgs(JV("str", <<"a">>), Undef, o, Undef) : o \in OptionalValues}
         \cup {GeminiArgs(JV("str", <<"a">>), Undef, Undef, o) : o \in OptionalValues}
         \cup {GeminiArgs(Num, Num, Undef, Undef),
               [GeminiArgs(JV("str", <<"a">>), Undef, Undef, Undef) EXCEPT !.extra = TRUE]}

\* The params of the tools/call lines.
CallParams ==
  {ParamsOf("undef"), ParamsOf("null"), ParamsOf("num")}
  \cup {Params("obj", n, a) :
          n \in {"", "nonexistent_tool"},
          a \in {Arguments("undef", EmptyArgs), Arguments("null", EmptyArgs),
                 Arguments("arr", EmptyArgs),
                 Arguments("obj", PathArgs(JV("str", <<"a">>), FALSE))}}
  \cup {Params("obj", n, Arguments(t, EmptyArgs)) :
          n \in Tools, t \in {"undef", "null", "arr", "num"}}
  \cup {Params("obj", "read_file", Arguments("str", EmptyArgs)),
        Params("obj", "call_gemini", Arguments("bool", EmptyArgs))}
  \cup UNION {{Params("obj", n, Arguments("obj", a)) : a \in ToolArgs(n)} : n \in Tools}

Methods ==
  {"initialize", "tools/list", "tools/call", "ping", "shutdown", "exit",
   "initialized", "no/such"}

\* The params of the lines of the other methods and of the notifications.
OtherParams ==
  {ParamsOf("undef"), ParamsOf("null"),
   Params("obj", "write_file",
          Arguments("obj", WriteArgs(JV("str", <<"a">>), JV("str", <<>>), UndefBool)))}

\* A sample of the tools/call params: each protocol error, and for each tool
\* a success, a domain error and (write_file) an untranslated exception.
SampleParams ==
  {ParamsOf("undef"), ParamsOf("null"), ParamsOf("num"),
   Params("obj", "", Arguments("undef", EmptyArgs)),
   Params("obj", "nonexistent_tool",
          Arguments("obj", PathArgs(JV("str", <<"a">>), FALSE))),
   Params("obj", "read_file", Arguments("null", EmptyArgs)),
   Params("obj", "write_file", Arguments("arr", EmptyArgs)),
   Params("obj", "list_dir", Arguments("undef", EmptyArgs))}
  \cup {Params("obj", "read_file", Arguments("obj", PathArgs(p, FALSE))) :
          p \in {Num, JV("str", <<"a">>), JV("str", <<"s">>),
                 JV("str", <<"s", "/", "a">>), JV("str", <<".", ".", "/", "a">>)}}
  \cup {Params("obj", "write_file",
               Arguments("obj", WriteArgs(JV("str", p), JV("str", <<"h", "h">>), cp))) :
          p \in {<<"a">>, <<"a", "/", "a">>, <<".">>},
          cp \in {UndefBool, JV("bool", TRUE)}}
  \cup {Params("obj", "list_dir", Arguments("obj", PathArgs(JV("str", <<"s">>), FALSE))),
        Params("obj", "call_gemini",
               Arguments("obj", GeminiArgs(JV("str", <<"a">>), Undef, Undef, Undef)))}

RequestIds == {IdNull, Id("num", 1)}

\* The lines stdin delivers to the run loop: every shape of line, every
\* method as a request and as a notification, and the sampled tool calls.
Lines ==
  {Line("blank", NoMessage), Line("garbage", NoMessage)}
  \cup {Line("json", Message(t, FALSE, "", IdUndef, ParamsOf("undef"))) :
          t \in {"num", "str", "bool", "null", "arr"}}
  \cup {Line("json", Message("obj", FALSE, "", id, ParamsOf("undef"))) :
          id \in {IdUndef, Id("num", 1)}}
  \cup {Line("json", Message("obj", TRUE, "tools/call", Id("num", 1), p)) :
          p \in SampleParams}
  \cup {Line("json", Message("obj", TRUE, "tools/call", IdNull, p)) :
          p \in {ParamsOf("undef"),
                 Params("obj", "read_file",
                        Arguments("obj", PathArgs(JV("str", <<"a">>), FALSE)))}}
  \cup {Line("json", Message("obj", TRUE, m, id, ParamsOf("undef"))) :
          m \in Methods \ {"tools/call"}, id \in RequestIds}
  \cup {Line("json", Message("obj", TRUE, m, Id("num", 2), p)) :
          m \in {"ping", "no/such"}, p \in OtherParams}
  \cup {Line("json", Message("obj", TRUE, m, IdUndef, p)) :
          m \in Methods, p \in OtherParams}

\* The lines of the tool-call specification: tools/call taken with every
\* argument object of ToolArgs, and the two requests a client sends before
\* it calls a tool.
CallLines ==
  {Line("json", Message("obj", TRUE, "tools/call", Id("num", 1), p)) : p \in CallParams}
  \cup {Line("json", Message("obj", TRUE, m, Id("num", 1), ParamsOf("undef"))) :
          m \in {"initialize", "tools/list"}}

\* ---------------------------------------------------------------- actions

Written(n, resp) == [line |-> n, resp |-> resp]

\* What a line is, read off its text: blank, not JSON ("garbage"), a JSON
\* value that is no object ("value"), an object without a method member
\* ("nomethod"), or an object with one, without ("notification") or with
\* ("request") an id member.
LineKind(line) ==
  IF line.k # "json" THEN line.k
  ELSE IF line.msg.t # "obj" THEN "value"
  ELSE IF ~line.msg.hasMethod THEN "nomethod"
  ELSE IF line.msg.id.t = "undef" THEN "notification"
  ELSE "request"

\* run without the await: the loop takes the next line at once.
LoopReadyNoAwait == TRUE

\* run: `await this.handleRequest(...)` keeps the loop from taking the next
\* line while a handler is suspended.
LoopReady == inflight = <<>>

\* A handler suspends when it reaches an I/O operation.
Suspends(name, args) == callHandler(name, args, fs, gemini, "text").ops # <<>>

\* run: the loop takes one line from stdin and handles it, up to the response
\* or to the I/O operation its tool handler waits for.
ReadLine(line) ==
  LET n == nread + 1
      route == Route(line)
      message == JSONparse(line).value
      h == handleRequest(message.id, message.method, message.params)
      invoked == route = "request" /\ h.invoke
      o == callHandler(h.name, h.args, fs, gemini, "text")
  IN /\ ~exited /\ ~eof /\ nread < MaxLines
     /\ LoopReady
     /\ nread' = n
     /\ cur' = line
     /\ taken' = Append(taken, [kind |-> LineKind(line), id |-> line.msg.id])
     /\ called' = IF invoked THEN h.name ELSE ""
     /\ exited' = (route = "notification" /\ handleNotification(message.method))
     /\ CASE route = "parse error" ->
               /\ output' = Append(output, Written(n, sendError(IdNull, -32700)))
               /\ UNCHANGED inflight
               /\ last' = NoRun
          [] route = "request" /\ ~h.invoke ->
               /\ output' = IF h.resp = NoResponse THEN output
                            ELSE Append(output, Written(n, h.resp))
               /\ UNCHANGED inflight
               /\ last' = NoRun
          [] invoked /\ ~Suspends(h.name, h.args) ->
               /\ output' = Append(output, Written(n, toolResponse(message.id, o)))
               /\ UNCHANGED inflight
               /\ last' = Ran(o)
          [] invoked /\ Suspends(h.name, h.args) ->
               /\ inflight' = Append(inflight,
                    [line |-> n, id |-> message.id, name |-> h.name, args |-> h.args])
               /\ UNCHANGED output
               /\ last' = NoRun
          [] OTHER -> /\ UNCHANGED <<output, inflight>>
                      /\ last' = NoRun
     /\ UNCHANGED <<fs, gemini, eof, probe>>

\* The I/O of a suspended handler completes: the handler runs to its end and
\* handleRequest's response is written.
CompleteIO(i, gen) ==
  LET e == inflight[i]
      o == callHandler(e.name, e.args, fs, gemini, gen)
  IN /\ ~exited
     /\ fs' = o.fs
     /\ last' = Ran(o)
     /\ output' = Append(output, Written(e.line, toolResponse(e.id, o)))
     /\ inflight' = [j \in 1..(Len(inflight) - 1) |->
                       IF j < i THEN inflight[j] ELSE inflight[j + 1]]
     /\ UNCHANGED <<gemini, nread, cur, called, taken, exited, eof, probe>>

\* The outcomes of the I/O a suspended handler waits for: generateContent's
\* for call_gemini; the file operations' are decided by the filesystem.
OutcomesFor(name) == IF name = "call_gemini" THEN GenerateOutcomes ELSE {"text"}

\* stdin is closed: the loop ends once the line in hand is done.
EndOfInput ==
  /\ ~exited /\ ~eof
  /\ eof' = TRUE
  /\ UNCHANGED <<fs, gemini, output, nread, cur, called, inflight, taken, last,
                 exited, probe>>

Next ==
  \/ \E line \in Lines : ReadLine(line)
  \/ \E i \in DOMAIN inflight : \E gen \in OutcomesFor(inflight[i].name) :
       CompleteIO(i, gen)
  \/ EndOfInput

\* The server fed any lines.
Spec == Init /\ [][Next]_vars

NextCalls ==
  \/ \E line \in CallLines : ReadLine(line)
  \/ \E i \in DOMAIN inflight : \E gen \in OutcomesFor(inflight[i].name) :
       CompleteIO(i, gen)

\* The server fed tool calls.
SpecCalls == Init /\ [][NextCalls]_vars

\* Every string of at most MaxPathLen characters.
AllPaths == UNION {[1..n -> Chars] : n \in 0..MaxPathLen}

\* A handler is called directly on the initial filesystem and runs to its end.
Probe(name, args) ==
  LET o == callHandler(name, args, fs, gemini, "text")
  IN /\ probe = NoProbe
     /\ probe' = [name |-> name, args |-> args]
     /\ last' = Ran(o)
     /\ fs' = o.fs
     /\ UNCHANGED <<gemini, output, nread, cur, called, inflight, taken, exited, eof>>

ProbeRead ==
  /\ probe = NoProbe
  /\ \E p \in AllPaths : Probe("read_file", PathArgs(JV("str", p), FALSE))
ProbeList ==
  /\ probe = NoProbe
  /\ \E p \in AllPaths : Probe("list_dir", PathArgs(JV("str", p), FALSE))
ProbeWrite ==
  /\ probe = NoProbe
  /\ \E p \in AllPaths, cp \in {UndefBool, JV("bool", TRUE)} :
       Probe("write_file", WriteArgs(JV("str", p), JV("str", <<"h">>), cp))

NextHandlers == ProbeRead \/ ProbeList \/ ProbeWrite

\* The file handlers called on every user path.
SpecHandlers == Init /\ [][NextHandlers]_vars

\* The UTF-16 code units file contents are built from: a letter, a high and
\* a low surrogate.
CodeUnits == {"h", "HS", "LS"}
\* Every content string of at most MaxContentLen code units.
AllContents == UNION {[1..n -> CodeUnits] : n \in 0..MaxContentLen}
\* The user paths written to: an existing file, a new file in an existing
\* directory, a new file in a missing directory, a directory, and a path
\* through a file.
WritePaths ==
  { <<"a">>, <<"s", "/", "a">>, <<"s", "s", "/", "a">>, <<"s">>, <<"a", "/", "a">> }

\* handleWriteFile is called directly and runs to its end.
WriteFirst ==
  /\ probe = NoProbe
  /\ \E p \in WritePaths, s \in AllContents, cp \in {UndefBool, JV("bool", TRUE)} :
       LET args == WriteArgs(JV("str", p), JV("str", s), cp)
           o == handleWriteFile(args, fs)
       IN /\ probe' = [name |-> "write_file", args |-> args]
          /\ called' = "write_file"
          /\ last' = Ran(o)
          /\ fs' = o.fs
  /\ UNCHANGED <<gemini, output, nread, cur, inflight, taken, exited, eof>>

\* After a write that succeeded, handleReadFile is called on the same path.
ReadBack ==
  LET o == handleReadFile(PathArgs(probe.args.path, FALSE), fs)
  IN /\ probe.name = "write_file" /\ called = "write_file"
     /\ last.threw = "none"
     /\ called' = "read_file"
     /\ last' = Ran(o)
     /\ fs' = o.fs
     /\ UNCHANGED <<gemini, output, nread, cur, inflight, taken, exited, eof, probe>>

NextRoundTrip == WriteFirst \/ ReadBack

\* A write_file call followed by a read_file call of the same path.
SpecRoundTrip == Init /\ [][NextRoundTrip]_vars

\* ----------------------------------------------------------------- claims

\* The message of the line taken last, and what it asks for.
CurMsg == cur.msg
CurIsRequest == nread > 0 /\ LineKind(cur) = "request"
CurIsCall == CurIsRequest /\ CurMsg.method = "tools/call"
\* The responses written for line n.
ResponsesTo(n) == {i \in DOMAIN output : output[i].line = n}
\* Line n's tool handler is suspended.
InFlight(n) == \E i \in DOMAIN inflight : inflight[i].line = n
\* The filesystem operations of the handler run that ended last.
FileOps == {last.ops[i] : i \in DOMAIN last.ops} \ {Op("generateContent", <<>>)}

\* C1: every filesystem operation a tool call performs (read, write, listing,
\* parent-directory creation) targets Root or a path nested under Root.
C1_OpsWithinRoot == \A o \in FileOps : WithinRoot(o.path)

\* The user path of the handler called directly, and where it leads.
ProbePath == probe.args.path.v
ProbeTarget == pathResolve(Root, ProbePath)
Probed == probe.name # ""

\* C2: a user path whose lexical join with Root, normalised, is neither Root
\* nor under Root makes resolvePath fail, and read_file, write_file and
\* list_dir on it throw the out-of-root error without any filesystem access.
C2_OutsideRootRejected ==
  (Probed /\ ~WithinRoot(ProbeTarget)) =>
    /\ last.threw = "mcp"
    /\ last.text = Msg("outside of the server root")
    /\ last.ops = <<>>
    /\ fs = InitialFs

\* C2 witness: write_file with create_parents on "../a" was rejected.
C2_Witness ==
  /\ probe.name = "write_file"
  /\ ProbePath = <<".", ".", "/", "a">>
  /\ probe.args.create_parents.t = "bool"
  /\ last.threw = "mcp"

\* C3: a user path whose lexical join with Root, normalised, is Root or under
\* Root is accepted: the handler does not throw the out-of-root error and
\* operates on exactly that normalised path.
C3_InsideRootResolved ==
  (Probed /\ WithinRoot(ProbeTarget)) =>
    /\ last.text # Msg("outside of the server root")
    /\ last.ops # <<>>
    /\ \A i \in DOMAIN last.ops :
         last.ops[i].path = (IF last.ops[i].op = "mkdir" THEN pathDirname(ProbeTarget)
                             ELSE ProbeTarget)

\* C4: a line that parses to an object with a method and an id gets exactly
\* one response, carrying that id, once its handler has run to its end (none
\* while the handler is suspended), and never a second one.
C4_OneResponsePerRequest ==
  \A n \in 1..nread :
    taken[n].kind = "request" =>
      IF InFlight(n) THEN ResponsesTo(n) = {}
      ELSE /\ Cardinality(ResponsesTo(n)) = 1
           /\ \A i \in ResponsesTo(n) : output[i].resp.id = taken[n].id

\* C4 witness: two requests with different ids, the second to an unknown
\* method, were both answered.
C4_Witness ==
  /\ nread = 2 /\ Len(output) = 2
  /\ taken[1].id = Id("num", 1) /\ taken[1].kind = "request"
  /\ taken[2].id = Id("num", 2)
  /\ CurMsg.method = "no/such"

\* C5: responses are written in the order the requests were read, at most
\* one tool call is in flight, it belongs to the line read last, and every
\* earlier request has been answered before the next line is taken.
C5_ResponsesInOrder ==
  /\ \A i, j \in DOMAIN output : i < j => output[i].line < output[j].line
  /\ Len(inflight) <= 1
  /\ \A i \in DOMAIN inflight : inflight[i].line = nread
  /\ \A n \in 1..(nread - 1) : taken[n].kind = "request" => ResponsesTo(n) # {}

\* C5 witness: the second tool call is suspended on I/O after the first,
\* which also suspended, was answered.
C5_Witness ==
  /\ nread = 2 /\ Len(output) = 1 /\ inflight # <<>>
  /\ output[1].resp.result = "tool" /\ output[1].resp.text.tag = "Wrote"

\* C6: a message with a method and no id never gets a response, whatever its
\* method and params, and causes neither a tool call nor a file operation.
C6_NotificationSilent ==
  /\ \A n \in 1..nread :
       taken[n].kind = "notification" => ResponsesTo(n) = {} /\ ~InFlight(n)
  /\ (nread > 0 /\ LineKind(cur) = "notification") => called = "" /\ last = NoRun

\* C6 witness: a tools/call notification naming write_file followed an
\* answered request and produced nothing.
C6_Witness ==
  /\ nread = 2 /\ LineKind(cur) = "notification"
  /\ CurMsg.method = "tools/call" /\ CurMsg.params.name = "write_file"
  /\ Len(output) = 1

\* The parse-error response.
ParseErrorResponse == Response(IdNull, "error", -32700, "", FALSE, Msg(""))

\* C7: a line that is not JSON gets exactly one error response, with id null
\* and code -32700; the process goes on, the loop takes the next line, and a
\* request on a later line is answered.
C7_ParseErrorAnswered ==
  /\ \A n \in 1..nread :
       taken[n].kind = "garbage" =>
         /\ Cardinality(ResponsesTo(n)) = 1
         /\ \A i \in ResponsesTo(n) : output[i].resp = ParseErrorResponse
         /\ \A m \in (n + 1)..nread :
              (taken[m].kind = "request" /\ ~InFlight(m)) =>
                Cardinality(ResponsesTo(m)) = 1
  /\ (nread > 0 /\ LineKind(cur) = "garbage") =>
       /\ ~exited
       /\ (nread < MaxLines /\ ~eof) => ENABLED (\E line \in Lines : ReadLine(line))

\* C7 witness: a request was answered after a line that is not JSON.
C7_Witness ==
  /\ nread = 2 /\ taken[1].kind = "garbage" /\ taken[2].kind = "request"
  /\ Len(output) = 2 /\ output[2].resp.result = "pong"

\* C8 as stated: a line that is not JSON, or that parses to a message with
\* neither method nor id, gets no response.
C8_Original ==
  \A n \in 1..nread :
    (taken[n].kind = "garbage" \/ (taken[n].kind = "nomethod" /\ taken[n].id.t = "undef"))
      => ResponsesTo(n) = {}

\* C8 amended: a line that parses to a message with neither method nor id
\* gets no response; a line that is not JSON gets exactly one, the
\* parse-error response.
C8_Amended ==
  \A n \in 1..nread :
    /\ (taken[n].kind = "nomethod" /\ taken[n].id.t = "undef") =>
         ResponsesTo(n) = {} /\ ~InFlight(n)
    /\ taken[n].kind = "garbage" =>
         \E i \in DOMAIN output :
           /\ ResponsesTo(n) = {i}
           /\ output[i].resp = ParseErrorResponse

\* C8 witness: an object with neither method nor id, then a line that is
\* not JSON: one response in all.
C8_Witness ==
  /\ nread = 2 /\ taken[1].kind = "nomethod" /\ taken[1].id.t = "undef"
  /\ taken[2].kind = "garbage" /\ Len(output) = 1

\* C9: when a tool handler throws, whatever it throws, the response is a
\* result (never an error object) with isError true and the message as text,
\* carrying the request's id.
C9_HandlerFailureIsResult ==
  (probe = NoProbe /\ last.threw \in {"mcp", "other"}) =>
    /\ output # <<>>
    /\ output[Len(output)].line = nread
    /\ LET r == output[Len(output)].resp
       IN /\ r.kind = "result" /\ r.code = 0 /\ r.result = "tool"
          /\ r.isError = TRUE
          /\ r.id = taken[nread].id
          /\ r.text = (IF last.threw = "mcp" THEN last.text ELSE Msg("Tool failed"))

\* C9 witness: parent-directory creation failed under write_file (the parent
\* is a file), which the handler does not translate.
C9_Witness ==
  /\ last.threw = "other" /\ called = "write_file"
  /\ last.ops = <<Op("mkdir", << <<"s">>, <<"a">> >>)>>
  /\ output # <<>>

\* C10: a tools/call whose name is missing or not a registered tool gets the
\* protocol error -32601 and no result, whatever its arguments, and no tool
\* handler is called.
C10_UnknownToolIsProtocolError ==
  (CurIsCall /\ (CurMsg.params.t # "obj" \/ CurMsg.params.name \notin Tools)) =>
    /\ called = "" /\ last = NoRun /\ inflight = <<>>
    /\ \E i \in DOMAIN output :
         /\ ResponsesTo(nread) = {i}
         /\ output[i].resp = Response(CurMsg.id, "error", -32601, "", FALSE, Msg(""))

\* C10 witness: nonexistent_tool called with null arguments.
C10_Witness ==
  /\ CurIsCall /\ CurMsg.params.name = "nonexistent_tool"
  /\ CurMsg.params.arguments.t = "null"
  /\ Len(output) = nread

\* A tools/call request naming a registered tool whose `arguments` member is
\* present and is not an object (null, an array, a number, a string, a
\* boolean).
BadArgumentsCall(line) ==
  /\ LineKind(line) = "request" /\ line.msg.method = "tools/call"
  /\ line.msg.params.t = "obj" /\ line.msg.params.name \in Tools
  /\ line.msg.params.arguments.t \notin {"undef", "obj"}

\* C11: taking a tools/call line for a registered tool whose arguments are
\* null, an array or another non-object value writes exactly the protocol
\* error -32602 with the request's id, calls no tool handler, suspends
\* nothing and leaves the filesystem as it was.
C11_BadArgumentsRejected ==
  [][(nread' = nread + 1 /\ BadArgumentsCall(cur')) =>
       /\ output' = Append(output,
                           Written(nread', Response(cur'.msg.id, "error", -32602, "",
                                                    FALSE, Msg(""))))
       /\ called' = "" /\ last' = NoRun /\ inflight' = <<>>
       /\ fs' = fs]_vars

\* C11 witness: after a write_file call changed the filesystem, list_dir
\* called with an array for arguments was answered with -32602.
C11_Witness ==
  /\ nread = 2 /\ BadArgumentsCall(cur)
  /\ CurMsg.params.name = "list_dir" /\ CurMsg.params.arguments.t = "arr"
  /\ fs # InitialFs
  /\ Len(output) = 2 /\ output[2].resp.code = -32602

\* The declared fields of each tool's input schema and their types.
DeclaredFields(name) ==
  CASE name = "read_file" -> {"path"}
    [] name = "list_dir" -> {"path"}
    [] name = "write_file" -> {"path", "content", "create_parents"}
    [] name = "call_gemini" -> {"prompt", "system_prompt", "temperature", "top_p"}
    [] OTHER -> {}
DeclaredType(f) ==
  CASE f = "create_parents" -> "bool"
    [] f \in {"temperature", "top_p"} -> "num"
    [] OTHER -> "str"
\* The declared fields of tool `name` that args supplies with another type.
WrongFields(name, args) ==
  {f \in DeclaredFields(name) : args[f].t \notin {"undef", DeclaredType(f)}}
\* The invalid-argument messages that name field f.
FieldMessages(f) ==
  CASE f = "path" -> {Msg("'path' must be a string.")}
    [] f = "content" -> {Msg("'content' must be a string.")}
    [] f = "create_parents" -> {Msg("'create_parents' must be a boolean.")}
    [] f = "prompt" -> {Msg("'prompt' must be a string.")}
    [] f = "system_prompt" -> {Msg("'system_prompt' must be a string when provided.")}
    [] f = "temperature" -> {Msg("'temperature' must be numeric when provided.")}
    [] f = "top_p" -> {Msg("'top_p' must be numeric when provided.")}
\* The argument object the handler of the line taken last was called with.
CurArgs == callArguments(CurMsg.params).args

\* C12: a tool handler called with a declared field of the wrong type throws
\* an error whose message names such a field, without suspending on and
\* without having performed any filesystem operation or generate call, with
\* the generate capability configured or not.
C12_WrongTypeRejectedFirst ==
  (CurIsCall /\ called # "" /\ WrongFields(called, CurArgs) # {}) =>
    /\ inflight = <<>>
    /\ last.threw = "mcp"
    /\ last.ops = <<>>
    /\ \E f \in WrongFields(called, CurArgs) : last.text \in FieldMessages(f)

\* C13: a tool handler called with an argument object that has a field its
\* input schema does not declare throws, without suspending on and without
\* having performed any I/O operation.
C13_UndeclaredFieldRejected ==
  (CurIsCall /\ called # "" /\ CurArgs.extra) =>
    /\ inflight = <<>>
    /\ last.threw \in {"mcp", "other"}
    /\ last.ops = <<>>

\* A message with method `exit` and no id member.
ExitNotification(line) ==
  LineKind(line) = "notification" /\ line.msg.method = "exit"
\* A request with method `shutdown`.
ShutdownRequest(line) ==
  LineKind(line) = "request" /\ line.msg.method = "shutdown"

\* C14: the process ends exactly when the loop takes an `exit` notification:
\* no other line (a request, `shutdown` and `exit` with an id included,
\* another notification, a malformed line) ends it; a `shutdown` request is
\* answered with result null; and once the process has ended nothing changes
\* any more: no line is taken and no response is written.
C14_OnlyExitTerminates ==
  [][/\ ~exited
     /\ exited' <=> (nread' = nread + 1 /\ ExitNotification(cur'))
     /\ exited' => output' = output /\ fs' = fs
     /\ (nread' = nread + 1 /\ ShutdownRequest(cur')) =>
          output' = Append(output, Written(nread', Result(cur'.msg.id, "null")))]_vars

\* C14 witness: a `shutdown` request was answered with null and the session
\* went on to take the `exit` notification that ended it.
C14_Witness ==
  /\ nread = 2 /\ exited /\ ExitNotification(cur)
  /\ taken[1].kind = "request"
  /\ Len(output) = 1 /\ output[1].resp.result = "null"

\* C15: when write_file of content s to path P has succeeded, the read_file
\* of P that follows it returns exactly s, whatever P held before.
C15_WriteThenReadReturnsContent ==
  (probe.name = "write_file" /\ called = "read_file") =>
    /\ last.threw = "none"
    /\ last.text = Text("data", probe.args.content.v, <<>>, <<>>)

\* The methods handleRequest knows.
RequestMethods == {"initialize", "tools/list", "tools/call", "ping", "shutdown"}
\* A request (a message with a method and an id) for any other method.
UnknownMethodRequest(line) ==
  LineKind(line) = "request" /\ line.msg.method \notin RequestMethods

\* C16: taking a request whose method is not initialize, tools/list,
\* tools/call, ping or shutdown writes exactly the protocol error -32601 with
\* the request's id, whatever its params, and changes neither the filesystem
\* nor the server: no handler is called or suspended, the Gemini client is as
\* it was and the process goes on.
C16_UnknownMethodIsProtocolError ==
  [][(nread' = nread + 1 /\ UnknownMethodRequest(cur')) =>
       /\ output' = Append(output,
                           Written(nread', Response(cur'.msg.id, "error", -32601, "",
                                                    FALSE, Msg(""))))
       /\ fs' = fs /\ gemini' = gemini
       /\ called' = "" /\ last' = NoRun /\ inflight' = <<>>
       /\ ~exited']_vars

\* C16 witness: after a write_file call changed the filesystem, a request
\* with method `exit` and id null was answered with -32601.
C16_Witness ==
  /\ nread = 2 /\ UnknownMethodRequest(cur) /\ CurMsg.method = "exit"
  /\ CurMsg.id = IdNull
  /\ fs # InitialFs
  /\ Len(output) = 2 /\ output[2].resp.code = -32601 /\ output[2].resp.id = IdNull

\* The text of the error handleCallGemini throws without a Gemini client.
NotConfigured == Msg("Gemini client is not configured.")
\* A tools/call request that reaches the handler of tool `name`.
HandlerCall(line, name) ==
  /\ LineKind(line) = "request" /\ line.msg.method = "tools/call"
  /\ line.msg.params.t = "obj" /\ line.msg.params.name = name
  /\ line.msg.params.arguments.t \in {"undef", "obj"}
\* A request for `method`.
RequestFor(line, method) ==
  LineKind(line) = "request" /\ line.msg.method = method

\* C17: on a server whose Gemini client failed to initialise, initialize and
\* tools/list are answered with their results, a file tool's run never ends
\* in the not-configured error, and every call_gemini call, whatever its
\* arguments, is answered at once with a result whose isError is true and
\* whose text is the not-configured message, without any generate call.
C17_UnconfiguredGeminiIsToolError ==
  [][~gemini =>
       /\ ~gemini'
       /\ (nread' = nread + 1 /\ RequestFor(cur', "initialize")) =>
            output' = Append(output, Written(nread', Result(cur'.msg.id, "initialize")))
       /\ (nread' = nread + 1 /\ RequestFor(cur', "tools/list")) =>
            output' = Append(output, Written(nread', Result(cur'.msg.id, "tools")))
       /\ (called' \in {"read_file", "write_file", "list_dir"} /\ last' # NoRun) =>
            last'.text # NotConfigured
       /\ (nread' = nread + 1 /\ HandlerCall(cur', "call_gemini")) =>
            /\ output' = Append(output,
                                Written(nread', Response(cur'.msg.id, "result", 0, "tool",
                                                         TRUE, NotConfigured)))
            /\ called' = "call_gemini" /\ inflight' = <<>>
            /\ last'.ops = <<>> /\ fs' = fs]_vars

\* C17 witness: without a Gemini client, tools/list was answered and then a
\* call_gemini call with a wrong-typed prompt got the not-configured result.
C17_Witness ==
  /\ ~gemini /\ nread = 2 /\ HandlerCall(cur, "call_gemini")
  /\ CurArgs.prompt.t = "num"
  /\ Len(output) = 2 /\ output[1].resp.result = "tools"
  /\ output[2].resp.isError /\ output[2].resp.text = NotConfigured

\* The list_dir call whose readdir is pending, and the directory it lists.
ListPending == inflight # <<>> /\ inflight[1].name = "list_dir"
ListedDir ==
  pathResolve(Root, IF inflight[1].args.path.t = "str" THEN inflight[1].args.path.v
                    ELSE <<".">>)
\* The direct children of directory d, and the name each is listed under.
ChildrenOf(d) == {q \in DOMAIN fs : Len(q) = Len(d) + 1 /\ SubSeq(q, 1, Len(d)) = d}
ListedNames(d) ==
  {IF fs[q].kind = "dir" THEN Append(q[Len(q)], "/") ELSE q[Len(q)] : q \in ChildrenOf(d)}

\* C18: when a list_dir call returns, its text is a function of the direct
\* children of the directory alone: `(empty)` when there are none, else one
\* name per direct child and no other, a directory's with a trailing `/` and
\* a file's without, in ascending order; and the call leaves the filesystem
\* as it was (so a second call returns the same text).
C18_ListingOfDirectChildren ==
  [][(ListPending /\ inflight' = <<>>) =>
       /\ fs' = fs
       /\ last'.threw = "none" =>
            LET names == last'.text.names
                want == ListedNames(ListedDir)
            IN /\ output' = Append(output, Written(inflight[1].line,
                                     Response(inflight[1].id, "result", 0, "tool", FALSE,
                                              last'.text)))
               /\ IF want = {} THEN last'.text = Msg("(empty)")
                  ELSE /\ last'.text = Text("names", <<>>, <<>>, names)
                       /\ {names[i] : i \in DOMAIN names} = want
                       /\ Len(names) = Cardinality(want)
                       /\ \A i, j \in DOMAIN names :
                            i < j => localeLess(names[i], names[j])]_vars

\* C18 witness: after write_file created ss/a and its parent, list_dir of
\* Root returned its three direct children in order, without the file
\* below ss.
C18_Witness ==
  /\ nread = 2 /\ called = "list_dir" /\ last.threw = "none"
  /\ << <<"s">>, <<"s", "s">>, <<"a">> >> \in DOMAIN fs
  /\ last.text.names = << <<"a">>, <<"s", "/">>, <<"s", "s", "/">> >>

\* C19: a line that parses to a number, a string, a boolean, null or an
\* array, or to an object without a method member (with or without an id),
\* gets no response and runs no handler; the process goes on, the loop takes
\* the next line, and a request on a later line is answered.
C19_ShapelessLineIgnored ==
  /\ \A n \in 1..nread :
       taken[n].kind \in {"value", "nomethod"} =>
         /\ ResponsesTo(n) = {} /\ ~InFlight(n)
         /\ \A m \in (n + 1)..nread :
              (taken[m].kind = "request" /\ ~InFlight(m)) =>
                Cardinality(ResponsesTo(m)) = 1
  /\ (nread > 0 /\ LineKind(cur) \in {"value", "nomethod"}) =>
       /\ called = "" /\ last = NoRun /\ ~exited
       /\ (nread < MaxLines /\ ~eof) => ENABLED (\E line \in Lines : ReadLine(line))

\* C19 witness: an object with an id and no method produced nothing, and the
\* ping request after it was answered.
C19_Witness ==
  /\ nread = 2 /\ taken[1].kind = "nomethod" /\ taken[1].id = Id("num", 1)
  /\ taken[2].kind = "request"
  /\ Len(output) = 1 /\ output[1].line = 2 /\ output[1].resp.result = "pong"

\* A message with a method member whose id member is null.
NullIdMessage(line) ==
  /\ line.k = "json" /\ line.msg.t = "obj" /\ line.msg.hasMethod
  /\ line.msg.id = IdNull
\* What the request method table answers to `method` (tools/call apart).
TableResponse(id, method) ==
  CASE method = "initialize" -> Result(id, "initialize")
    [] method = "tools/list" -> Result(id, "tools")
    [] method = "ping" -> Result(id, "pong")
    [] method = "shutdown" -> Result(id, "null")
    [] OTHER -> Response(id, "error", -32601, "", FALSE, Msg(""))

\* C20: a message with a method and an id that is null is handled as a
\* request: taking it writes the request table's answer for its method with
\* id null (the -32601 error for `exit`, which does not end the process), or,
\* for tools/call, starts the call, whose single response carries id null;
\* a message is handled as a notification (no response) only when its id
\* member is absent.
C20_NullIdIsRequest ==
  [][/\ (nread' = nread + 1 /\ NullIdMessage(cur')) =>
          /\ ~exited'
          /\ IF cur'.msg.method = "tools/call"
               THEN \/ /\ inflight' # <<>> /\ inflight'[1].id = IdNull
                       /\ output' = output
                    \/ /\ inflight' = <<>> /\ Len(output') = Len(output) + 1
                       /\ output'[Len(output')].line = nread'
                       /\ output'[Len(output')].resp.id = IdNull
             ELSE output' = Append(output, Written(nread',
                                     TableResponse(IdNull, cur'.msg.method)))
     /\ (inflight # <<>> /\ inflight[1].id = IdNull /\ inflight' = <<>>) =>
          /\ Len(output') = Len(output) + 1
          /\ output'[Len(output')].line = inflight[1].line
          /\ output'[Len(output')].resp.id = IdNull
     /\ (nread' = nread + 1 /\ output' = output /\ inflight' = <<>>
         /\ cur'.k = "json" /\ cur'.msg.t = "obj" /\ cur'.msg.hasMethod) =>
          cur'.msg.id = IdUndef]_vars

\* C20 witness: a ping with id null was answered with id null, and then an
\* `exit` message with id null got the -32601 error and the process went on.
C20_Witness ==
  /\ nread = 2 /\ ~exited /\ NullIdMessage(cur) /\ CurMsg.method = "exit"
  /\ taken[1].id = IdNull
  /\ Len(output) = 2
  /\ output[1].resp = Result(IdNull, "pong")
  /\ output[2].resp = Response(IdNull, "error", -32601, "", FALSE, Msg(""))

\* A tools/call request naming registered tool `name` whose params object has
\* no `arguments` member.
OmittedArgumentsCall(line, name) ==
  /\ HandlerCall(line, name) /\ line.msg.params.arguments.t = "undef"
\* A tool result for line n with the request's id.
ToolResult(n, id, isError, text) ==
  Written(n, Response(id, "result", 0, "tool", isError, text))

\* C21: a tools/call for a registered tool whose params omit `arguments` is
\* not answered with -32602: the handler is called with an empty argument
\* object, so read_file, write_file and call_gemini are answered at once with
\* an isError result carrying their own validation message and no I/O, and
\* list_dir reads Root and returns its listing; a tools/call for a registered
\* tool is answered with -32602 only when `arguments` is present and is not
\* an object.
C21_OmittedArgumentsDefaultToEmpty ==
  [][/\ \A name \in {"read_file", "write_file"} :
          (nread' = nread + 1 /\ OmittedArgumentsCall(cur', name)) =>
            /\ called' = name /\ last'.ops = <<>> /\ inflight' = <<>> /\ fs' = fs
            /\ output' = Append(output, ToolResult(nread', cur'.msg.id, TRUE,
                                                   Msg("'path' must be a string.")))
     /\ (nread' = nread + 1 /\ OmittedArgumentsCall(cur', "call_gemini")) =>
          /\ called' = "call_gemini" /\ last'.ops = <<>> /\ inflight' = <<>>
          /\ output' = Append(output, ToolResult(nread', cur'.msg.id, TRUE,
                                 IF gemini THEN Msg("'prompt' must be a string.")
                                 ELSE NotConfigured))
     /\ (nread' = nread + 1 /\ OmittedArgumentsCall(cur', "list_dir")) =>
          /\ called' = "list_dir" /\ output' = output
          /\ Len(inflight') = 1 /\ inflight'[1].name = "list_dir"
          /\ inflight'[1].args = EmptyArgs
     /\ (ListPending /\ OmittedArgumentsCall(cur, "list_dir") /\ inflight' = <<>>) =>
          /\ last'.ops = <<Op("readdir", Root)>> /\ fs' = fs
          /\ {last'.text.names[i] : i \in DOMAIN last'.text.names} = ListedNames(Root)
          /\ output' = Append(output, ToolResult(inflight[1].line, inflight[1].id,
                                                 FALSE, last'.text))
     /\ (/\ nread' = nread + 1 /\ Len(output') = Len(output) + 1
         /\ output'[Len(output')].resp.code = -32602) =>
          cur'.msg.params.arguments.t \notin {"undef", "obj"}]_vars

\* C21 witness: after write_file without arguments was answered with its
\* own path error, list_dir without arguments listed Root.
C21_Witness ==
  /\ nread = 2 /\ OmittedArgumentsCall(cur, "list_dir") /\ inflight = <<>>
  /\ Len(output) = 2
  /\ output[1].resp.isError /\ output[1].resp.text = Msg("'path' must be a string.")
  /\ ~output[2].resp.isError
  /\ output[2].resp.text.names = << <<"a">>, <<"s", "/">> >>

====
